---- MODULE Spec2Model ----
(***************************************************************************)
(* Model of src/main.py: InstallerHack._add_limine_bootloader (the Limine  *)
(* bootloader deployment) and perform_installation (the ordered list of    *)
(* installation steps that calls it).                                      *)
(*                                                                         *)
(* Paths and command words are strings, built by concatenation as the      *)
(* f-strings and pathlib joins of the source build them.  A text file is   *)
(* the sequence of its lines, each line terminated by "\n" in the file.    *)
(* A shell command line is the sequence of its "&&"-joined commands, each  *)
(* the sequence of its space-separated words.                              *)
(***************************************************************************)
EXTENDS Integers, Sequences, FiniteSets, TLC

VARIABLES
    has_uefi,        \* SysInfo.has_uefi()
    efi_partition,   \* Optional[PartitionModification]: [present, mountpoint]
    boot_partition,  \* boot_partition.dev_path (NoPath when unset)
    has_alias,       \* whether get_unique_path_for_device finds an alias
    kernels,         \* self.kernels
    root_params,     \* what self._get_kernel_params(root) returns
    arguments,       \* archinstall.arguments and host facts read by the script
    files,           \* regular files of the host filesystem: path -> lines
    dirs,            \* directories of the host filesystem
    executed,        \* boot-file deployment operations done by the install
    trace,           \* every operation attempted so far, in order
    hook_command,    \* local variable hook_command
    parent_dev_path, \* local variable parent_dev_path
    file_idx,        \* position of the loop of line 49
    helper_flags,    \* self.helper_flags
    raised,          \* the exception that left the running function
    pc,              \* position inside _add_limine_bootloader
    ip               \* position inside perform_installation (0: not running)

vars == <<has_uefi, efi_partition, boot_partition, has_alias, kernels,
          root_params, arguments, files, dirs, executed, trace, hook_command,
          parent_dev_path, file_idx, helper_flags, raised, pc, ip>>

inputs == <<has_uefi, efi_partition, boot_partition, has_alias, kernels,
            root_params, arguments>>

----------------------------------------------------------------------------
(* Bounds of the model.                                                    *)

MaxKernels == 2

----------------------------------------------------------------------------
(* Values.                                                                 *)

NoPath == ""
NoError == [kind |-> "None", msg |-> ""]
NoCommand == <<>>

Target == "/mnt/archinstall"

KernelNames == {"linux", "linux-zen"}

MountPoints == {"boot", "efi"}

NoEfiPartition == [present |-> FALSE, mountpoint |-> NoPath]

EfiPartitions ==
    {NoEfiPartition, [present |-> TRUE, mountpoint |-> NoPath]}
        \cup {[present |-> TRUE, mountpoint |-> m] : m \in MountPoints}

BootDevPaths == {NoPath, "/dev/sda1", "/dev/nvme0n1p2"}

RootParamSets ==
    { <<"root=PARTUUID=0a1b", "zswap.enabled=0", "rw", "rootfstype=ext4">>,
      <<"root=/dev/mapper/vg-root", "rw">> }

KernelLists == UNION {[1..n -> KernelNames] : n \in 1..MaxKernels}

----------------------------------------------------------------------------
(* Path and text helpers.                                                  *)

\* pathlib's a / b
Join(a, b) == a \o "/" \o b

\* str(efi_partition.mountpoint): the absolute mount point
MountStr(m) == "/" \o m

RECURSIVE JoinWith(_, _)
\* sep.join(words)
JoinWith(sep, words) ==
    IF words = <<>> THEN ""
    ELSE IF Len(words) = 1 THEN words[1]
    ELSE words[1] \o sep \o JoinWith(sep, Tail(words))

RECURSIVE Flatten(_)
Flatten(ss) == IF ss = <<>> THEN <<>> ELSE ss[1] \o Flatten(Tail(ss))

Range(s) == {s[i] : i \in DOMAIN s}

\* f with path p holding content c
WriteFile(f, p, c) == [q \in DOMAIN f \cup {p} |-> IF q = p THEN c ELSE f[q]]

\* shutil.copy(src, dst): into dst when dst is a directory, else onto dst
CopyDest(dst, name, ds) == IF dst \in ds THEN Join(dst, name) ELSE dst

----------------------------------------------------------------------------
(* External collaborators of the bootloader routine.                       *)

\* The files the limine package installs below the target root
LiminePackageFiles ==
    { Target \o "/usr/share/limine/BOOTIA32.EFI",
      Target \o "/usr/share/limine/BOOTX64.EFI",
      Target \o "/usr/share/limine/limine-bios.sys",
      Target \o "/usr/bin/limine" }

\* The directories present below the target root once a package is strapped
PackageDirs ==
    { Target \o "/usr/share/limine", Target \o "/usr/bin",
      Target \o "/boot", Target \o "/etc" }

\* disk.device_handler.get_parent_device_path: the whole-disk device
get_parent_device_path(part) ==
    CASE part = "/dev/sda1" -> "/dev/sda"
      [] part = "/dev/nvme0n1p2" -> "/dev/nvme0n1"
      [] OTHER -> NoPath

\* disk.device_handler.get_unique_path_for_device: an alias, or None
get_unique_path_for_device(dev, alias) ==
    IF ~alias THEN NoPath
    ELSE CASE dev = "/dev/sda" -> "/dev/disk/by-id/ata-DISK0"
           [] dev = "/dev/nvme0n1" -> "/dev/disk/by-id/nvme-DISK1"
           [] OTHER -> NoPath

----------------------------------------------------------------------------
(* The computations of _add_limine_bootloader.                             *)

limine_path == Target \o "/usr" \o "/share" \o "/limine"

EfiFiles == <<"BOOTIA32.EFI", "BOOTX64.EFI">>

BiosFile == "limine-bios.sys"

\* Mutant of Variants: the fallback variant first
VariantsFallbackFirst == <<"fallback", "">>

Variants == <<"", "fallback">>

\* Mutant of PreconditionError: the mount point of the EFI partition is not
\* looked at
PreconditionErrorNoMountCheck(uefi, efi) ==
    IF ~uefi THEN ""
    ELSE IF ~efi.present THEN "Could not detect efi partition"
    ELSE ""

\* The precondition checks of the UEFI branch: the message raised, or ""
PreconditionError(uefi, efi) ==
    IF ~uefi THEN ""
    ELSE IF ~efi.present THEN "Could not detect efi partition"
    ELSE IF efi.mountpoint = NoPath THEN "EFI partition is not mounted"
    ELSE ""

\* self.target / efi_partition.mountpoint.relative_to('/') / 'EFI' / 'BOOT'
EfiDirPath(efi) == Target \o "/" \o efi.mountpoint \o "/EFI" \o "/BOOT"

\* Mutant of UefiHookCommand: the first copy repeated for the second file
UefiHookCommandSameFile(efi) ==
    << <<"/usr/bin/cp", "/usr/share/limine/BOOTIA32.EFI",
         MountStr(efi.mountpoint) \o "/EFI/BOOT/">>,
       <<"/usr/bin/cp", "/usr/share/limine/BOOTIA32.EFI",
         MountStr(efi.mountpoint) \o "/EFI/BOOT/">> >>

UefiHookCommand(efi) ==
    << <<"/usr/bin/cp", "/usr/share/limine/BOOTIA32.EFI",
         MountStr(efi.mountpoint) \o "/EFI/BOOT/">>,
       <<"/usr/bin/cp", "/usr/share/limine/BOOTX64.EFI",
         MountStr(efi.mountpoint) \o "/EFI/BOOT/">> >>

\* Mutant of ResolveParent: the unique path is not used
ResolveParentIgnoringAlias(parent, unique) == parent

\* if unique_path := ...: parent_dev_path = unique_path
ResolveParent(parent, unique) == IF unique # NoPath THEN unique ELSE parent

\* The words given to SysCommand for the disk install
BiosInstallCommand(dev) ==
    <<"/usr/bin/arch-chroot", Target, "limine", "bios-install", dev>>

BiosHookCommand(dev) ==
    << <<"/usr/bin/limine", "bios-install", dev>>,
       <<"/usr/bin/cp", "/usr/share/limine/limine-bios.sys", "/boot/">> >>

\* The text of a command line: words joined by " ", commands by " && "
RenderCommand(cmd) ==
    JoinWith(" && ", [i \in DOMAIN cmd |-> JoinWith(" ", cmd[i])])

HookContents(cmd) ==
    << "[Trigger]",
       "Operation = Install",
       "Operation = Upgrade",
       "Type = Package",
       "Target = limine",
       "",
       "[Action]",
       "Description = Deploying Limine after upgrade...",
       "When = PostTransaction",
       "Exec = /bin/sh -c \"" \o RenderCommand(cmd) \o "\"" >>

hooks_dir == Target \o "/etc" \o "/pacman.d" \o "/hooks"

hook_path == Join(hooks_dir, "99-limine.hook")

config_path == Target \o "/boot" \o "/limine.cfg"

\* append "quiet" and "splash", then ' '.join
KernelParams(orig) == JoinWith(" ", Append(Append(orig, "quiet"), "splash"))

Entry(kernel, variant, kernel_params) ==
    << "PROTOCOL=linux",
       "KERNEL_PATH=boot:///vmlinuz-" \o kernel,
       "MODULE_PATH=boot:///initramfs-" \o kernel \o variant \o ".img",
       "CMDLINE=" \o kernel_params >>

\* The two lines '\n:Polaris Linux {variant}\n'
Label(kernel, variant) == <<"", ":Polaris Linux " \o variant>>

Stanza(kernel, variant, kernel_params) ==
    LET entry == Entry(kernel, variant, kernel_params)
    IN  Label(kernel, variant) \o [i \in DOMAIN entry |-> "    " \o entry[i]]

TimeoutLine == "TIMEOUT=5"

\* The stanzas of one kernel, in the order of the inner loop
KernelStanzas(kernel, kernel_params) ==
    Flatten([v \in DOMAIN Variants |-> Stanza(kernel, Variants[v], kernel_params)])

ConfigContents(ks, kernel_params) ==
    <<TimeoutLine>>
        \o Flatten([k \in DOMAIN ks |-> KernelStanzas(ks[k], kernel_params)])

DiskErrorEfi(efi, cause) ==
    [kind |-> "DiskError",
     msg |-> "Failed to install Limine in " \o Target
             \o MountStr(efi.mountpoint) \o ": " \o cause]

DiskErrorBios(dev, cause) ==
    [kind |-> "DiskError",
     msg |-> "Failed to install Limine on " \o dev \o ": " \o cause]

----------------------------------------------------------------------------
(* State after construction of the installer, before add_bootloader.       *)

NoArguments ==
    [gpu_vendor |-> "unknown", mirror_config |-> FALSE, timezone |-> FALSE,
     accessibility |-> FALSE, root_password |-> FALSE, users |-> FALSE,
     stale_zip |-> FALSE]

\* The mounted target: its root and the mount point of a mounted EFI partition
MountedDirs(efi) ==
    {Target} \cup (IF efi.present /\ efi.mountpoint # NoPath
                   THEN {Target \o MountStr(efi.mountpoint)} ELSE {})

InputsInit ==
    /\ has_uefi \in BOOLEAN
    /\ efi_partition \in EfiPartitions
    /\ boot_partition \in BootDevPaths
    /\ has_alias \in BOOLEAN
    /\ root_params \in RootParamSets

StateInit ==
    /\ files = <<>>
    /\ dirs = MountedDirs(efi_partition)
    /\ executed = <<>>
    /\ trace = <<>>
    /\ hook_command = NoCommand
    /\ parent_dev_path = NoPath
    /\ file_idx = 0
    /\ helper_flags = [bootloader |-> "None"]
    /\ raised = NoError

\* A direct call of _add_limine_bootloader, for any kernel list
Init ==
    /\ InputsInit
    /\ kernels \in KernelLists
    /\ arguments = NoArguments
    /\ StateInit
    /\ pc = "strap"
    /\ ip = 0

----------------------------------------------------------------------------
(* _add_limine_bootloader, one action per statement that can fail.         *)

Raise(kind, msg) ==
    /\ raised' = [kind |-> kind, msg |-> msg]
    /\ pc' = "raised"

RaiseError(e) ==
    /\ raised' = e
    /\ pc' = "raised"

\* One entry of the trace: the operation, its argument, and the exit status
\* of a subprocess (0 for what is no subprocess)
Ev(op, arg, rc) == [op |-> op, arg |-> arg, rc |-> rc]

CopyOp(src, dst) == [op |-> "copy", src |-> src, dst |-> dst, dev |-> NoPath]

InstallOp(root, dev) ==
    [op |-> "bios-install", src |-> NoPath, dst |-> root, dev |-> dev]

\* self.pacman.strap('limine')
Strap ==
    /\ pc = "strap"
    /\ trace' = Append(trace, Ev("strap", "limine", 0))
    /\ \/ /\ files' = [q \in DOMAIN files \cup LiminePackageFiles |->
                         IF q \in LiminePackageFiles THEN <<"limine " \o q>>
                         ELSE files[q]]
          /\ dirs' = dirs \cup PackageDirs
          /\ pc' = "check"
          /\ UNCHANGED raised
       \/ /\ Raise("RequirementError", "Pacstrap failed")
          /\ UNCHANGED <<files, dirs>>
    /\ UNCHANGED <<inputs, executed, hook_command, parent_dev_path, file_idx,
                   helper_flags, ip>>

\* if SysInfo.has_uefi(): if not efi_partition ... elif not ...mountpoint
Check ==
    /\ pc = "check"
    /\ trace' = IF has_uefi THEN Append(trace, Ev("check", "efi_partition", 0)) ELSE trace
    /\ LET e == PreconditionError(has_uefi, efi_partition)
       IN  IF e # ""
           THEN Raise("ValueError", e)
           ELSE /\ pc' = IF has_uefi THEN "efi_mkdir" ELSE "bios_parent"
                /\ UNCHANGED raised
    /\ UNCHANGED <<inputs, files, dirs, executed, hook_command,
                   parent_dev_path, file_idx, helper_flags, ip>>

\* efi_dir_path = ...; efi_dir_path.mkdir(parents=True, exist_ok=True).  With
\* no mount point the path expression itself raises inside the try block
EfiMkdir ==
    /\ pc = "efi_mkdir"
    /\ trace' = Append(trace, Ev("mkdir", EfiDirPath(efi_partition), 0))
    /\ \/ /\ efi_partition.present
          /\ efi_partition.mountpoint # NoPath
          /\ dirs' = dirs \cup {EfiDirPath(efi_partition)}
          /\ pc' = "efi_copy"
          /\ file_idx' = 1
          /\ UNCHANGED raised
       \/ /\ RaiseError(DiskErrorEfi(efi_partition, "mkdir failed"))
          /\ UNCHANGED <<dirs, file_idx>>
    /\ UNCHANGED <<inputs, files, executed, hook_command, parent_dev_path,
                   helper_flags, ip>>

\* for file in ('BOOTIA32.EFI', 'BOOTX64.EFI'): shutil.copy(...); then the
\* assignment of hook_command once the loop is over
EfiCopy ==
    /\ pc = "efi_copy"
    /\ LET file == EfiFiles[file_idx]
           src == Join(limine_path, file)
           dst == CopyDest(EfiDirPath(efi_partition), file, dirs)
       IN  /\ trace' = Append(trace, Ev("copy", dst, 0))
           /\ \/ /\ src \in DOMAIN files
                 /\ files' = WriteFile(files, dst, files[src])
                 /\ executed' = Append(executed, CopyOp(src, dst))
                 /\ IF file_idx < Len(EfiFiles)
                    THEN /\ file_idx' = file_idx + 1
                         /\ UNCHANGED <<pc, hook_command>>
                    ELSE /\ pc' = "hook_mkdir"
                         /\ hook_command' = UefiHookCommand(efi_partition)
                         /\ UNCHANGED file_idx
                 /\ UNCHANGED raised
              \/ /\ RaiseError(DiskErrorEfi(efi_partition, "copy failed"))
                 /\ UNCHANGED <<files, executed, file_idx, hook_command>>
    /\ UNCHANGED <<inputs, dirs, parent_dev_path, helper_flags, ip>>

\* parent_dev_path = get_parent_device_path(boot_partition.safe_dev_path),
\* replaced by the unique path when there is one
BiosParent ==
    /\ pc = "bios_parent"
    /\ IF boot_partition = NoPath
       THEN /\ Raise("ValueError", "Device path was not set")
            /\ UNCHANGED parent_dev_path
       ELSE LET parent == get_parent_device_path(boot_partition)
            IN  /\ parent_dev_path' =
                       ResolveParent(parent,
                                     get_unique_path_for_device(parent, has_alias))
                /\ pc' = "bios_copy"
                /\ UNCHANGED raised
    /\ UNCHANGED <<inputs, files, dirs, executed, trace, hook_command,
                   file_idx, helper_flags, ip>>

\* shutil.copy(limine_path / 'limine-bios.sys', self.target / 'boot')
BiosCopy ==
    /\ pc = "bios_copy"
    /\ LET src == Join(limine_path, BiosFile)
           dst == CopyDest(Target \o "/boot", BiosFile, dirs)
       IN  /\ trace' = Append(trace, Ev("copy", dst, 0))
           /\ \/ /\ src \in DOMAIN files
                 /\ files' = WriteFile(files, dst, files[src])
                 /\ executed' = Append(executed, CopyOp(src, dst))
                 /\ pc' = "bios_install"
                 /\ UNCHANGED raised
              \/ /\ RaiseError(DiskErrorBios(parent_dev_path, "copy failed"))
                 /\ UNCHANGED <<files, executed>>
    /\ UNCHANGED <<inputs, dirs, hook_command, parent_dev_path, file_idx,
                   helper_flags, ip>>

\* SysCommand('/usr/bin/arch-chroot {target} limine bios-install {dev}'),
\* which raises on a non-zero exit status; then hook_command
BiosInstall ==
    /\ pc = "bios_install"
    /\ LET cmd == BiosInstallCommand(parent_dev_path)
       IN  \/ /\ trace' = Append(trace, Ev("run", JoinWith(" ", cmd), 0))
              /\ executed' = Append(executed, InstallOp(cmd[2], cmd[5]))
              /\ hook_command' = BiosHookCommand(parent_dev_path)
              /\ pc' = "hook_mkdir"
              /\ UNCHANGED raised
           \/ /\ trace' = Append(trace, Ev("run", JoinWith(" ", cmd), 1))
              /\ RaiseError(DiskErrorBios(parent_dev_path,
                                          "exited with abnormal exit code"))
              /\ UNCHANGED <<executed, hook_command>>
    /\ UNCHANGED <<inputs, files, dirs, parent_dev_path, file_idx,
                   helper_flags, ip>>

\* hooks_dir.mkdir(parents=True, exist_ok=True)
HookMkdir ==
    /\ pc = "hook_mkdir"
    /\ trace' = Append(trace, Ev("mkdir", hooks_dir, 0))
    /\ \/ /\ dirs' = dirs \cup {Target \o "/etc", Target \o "/etc/pacman.d",
                                hooks_dir}
          /\ pc' = "hook_write"
          /\ UNCHANGED raised
       \/ /\ Raise("OSError", "mkdir " \o hooks_dir)
          /\ UNCHANGED dirs
    /\ UNCHANGED <<inputs, files, executed, hook_command, parent_dev_path,
                   file_idx, helper_flags, ip>>

\* hook_path.write_text(hook_contents)
HookWrite ==
    /\ pc = "hook_write"
    /\ trace' = Append(trace, Ev("write", hook_path, 0))
    /\ \/ /\ files' = WriteFile(files, hook_path, HookContents(hook_command))
          /\ pc' = "kernel_params"
          /\ UNCHANGED raised
       \/ /\ Raise("OSError", "write " \o hook_path)
          /\ UNCHANGED files
    /\ UNCHANGED <<inputs, dirs, executed, hook_command, parent_dev_path,
                   file_idx, helper_flags, ip>>

\* kernel_params_orig = self._get_kernel_params(root)
GetKernelParams ==
    /\ pc = "kernel_params"
    /\ \/ /\ pc' = "config_write"
          /\ UNCHANGED raised
       \/ Raise("LibraryError", "_get_kernel_params")
    /\ UNCHANGED <<inputs, files, dirs, executed, trace, hook_command,
                   parent_dev_path, file_idx, helper_flags, ip>>

\* Mutant of ConfigWrite: a failed write is ignored and the function goes on
ConfigWriteIgnoringFailure ==
    /\ pc = "config_write"
    /\ trace' = Append(trace, Ev("write", config_path, 0))
    /\ \/ files' = WriteFile(files, config_path,
                             ConfigContents(kernels, KernelParams(root_params)))
       \/ UNCHANGED files
    /\ pc' = "set_flag"
    /\ UNCHANGED <<inputs, dirs, executed, hook_command, parent_dev_path,
                   file_idx, helper_flags, raised, ip>>

\* the rendering of config_contents and config_path.write_text(...)
ConfigWrite ==
    /\ pc = "config_write"
    /\ trace' = Append(trace, Ev("write", config_path, 0))
    /\ \/ /\ files' = WriteFile(files, config_path,
                                ConfigContents(kernels, KernelParams(root_params)))
          /\ pc' = "set_flag"
          /\ UNCHANGED raised
       \/ /\ Raise("OSError", "write " \o config_path)
          /\ UNCHANGED files
    /\ UNCHANGED <<inputs, dirs, executed, hook_command, parent_dev_path,
                   file_idx, helper_flags, ip>>

\* self.helper_flags['bootloader'] = "limine"
SetFlag ==
    /\ pc = "set_flag"
    /\ helper_flags' = [helper_flags EXCEPT !.bootloader = "limine"]
    /\ pc' = "returned"
    /\ UNCHANGED <<inputs, files, dirs, executed, trace, hook_command,
                   parent_dev_path, file_idx, raised, ip>>

Next ==
    \/ Strap
    \/ Check
    \/ EfiMkdir
    \/ EfiCopy
    \/ BiosParent
    \/ BiosCopy
    \/ BiosInstall
    \/ HookMkdir
    \/ HookWrite
    \/ GetKernelParams
    \/ ConfigWrite
    \/ SetFlag

Spec == Init /\ [][Next]_vars

----------------------------------------------------------------------------
(* perform_installation: the statements of its body, in source order.      *)

GpuVendors ==
    {"amd", "intel", "nvidia_beforeturing", "nvidia_turingplus", "vmware",
     "unknown"}

ZipFile == "sddm-eucalyptus-drop-v2.0.0.zip"

ThemeDir == "/mnt/archinstall/usr/share/sddm/themes"

\* kind: "lib" a method of the installer, "cmd" installation.run_command,
\* "file" a file operation of the script itself, "bootloader", "wget",
\* "unzip"; when: the argument that must be set for the statement to run
St(name, kind, when) == [name |-> name, kind |-> kind, when |-> when]

Program ==
    << St("mount_ordered_layout", "lib", "always"),
       St("sanity_check", "lib", "always"),
       St("add_bootloader", "bootloader", "always"),
       St("minimal_installation", "lib", "always"),
       St("mkdir /etc", "file", "always"),
       St("set_mirrors", "lib", "mirror_config"),
       St("activate_time_synchronization", "lib", "always"),
       St("setup_swap", "lib", "always"),
       St("pacman-key --init", "cmd", "always"),
       St("pacman-key --recv-key 3056513887B78AEB", "cmd", "always"),
       St("pacman-key --lsign-key 3056513887B78AEB", "cmd", "always"),
       St("pacman -U chaotic-keyring", "cmd", "always"),
       St("pacman -U chaotic-mirrorlist", "cmd", "always"),
       St("append /etc/pacman.conf", "file", "always"),
       St("pacman -Syyu zsh --noconfirm", "cmd", "always"),
       St("pacman -Sy polo", "cmd", "always"),
       St("add_additional_packages(drivers)", "lib", "gpu_vendor"),
       St("add_additional_packages(packages)", "lib", "always"),
       St("copy useradd", "file", "always"),
       St("write /etc/skel/.zshrc", "file", "always"),
       St("set_timezone", "lib", "timezone"),
       St("enable_espeakup", "lib", "accessibility"),
       St("activate_time_synchronization", "lib", "always"),
       St("user_set_pw", "lib", "root_password"),
       St("create_users", "lib", "users"),
       St("mkdir /etc/dconf/db/local.d", "file", "always"),
       St("copy 00_defaults", "file", "always"),
       St("write /etc/dconf/profile/user", "file", "always"),
       St("append /etc/sudoers", "file", "always"),
       St("write /etc/zsh/zshrc", "file", "always"),
       St("wget", "wget", "always"),
       St("unzip", "unzip", "always"),
       St("remove zip", "file", "always"),
       St("copy sddm.conf", "file", "always"),
       St("copy mkinitcpio.conf", "file", "always"),
       St("copy os-release", "file", "always"),
       St("copy lsb-release", "file", "always"),
       St("chown -R root:root /etc/dconf/db", "cmd", "always"),
       St("chmod -R 755 /etc/dconf/db", "cmd", "always"),
       St("dconf update", "cmd", "always"),
       St("plymouth-set-default-theme polaris", "cmd", "always"),
       St("enable_service(sddm)", "lib", "always"),
       St("enable_service(touchegg)", "lib", "always"),
       St("enable_service(NetworkManager)", "lib", "always"),
       St("enable_service(bluetooth)", "lib", "always"),
       St("genfstab", "lib", "always"),
       St("mkinitcpio -P", "cmd", "always") >>

\* Whether the condition guarding a statement holds
Runs(st, args) ==
    CASE st.when = "always" -> TRUE
      [] st.when = "gpu_vendor" -> args.gpu_vendor # "unknown"
      [] st.when = "mirror_config" -> args.mirror_config
      [] st.when = "timezone" -> args.timezone
      [] st.when = "accessibility" -> args.accessibility
      [] st.when = "root_password" -> args.root_password
      [] st.when = "users" -> args.users

Running == ip \in DOMAIN Program /\ raised = NoError

At(kind) == Running /\ pc = "idle" /\ Program[ip].kind = kind

ArgumentSets ==
    [gpu_vendor : GpuVendors, mirror_config : BOOLEAN, timezone : BOOLEAN,
     accessibility : BOOLEAN, root_password : BOOLEAN, users : BOOLEAN,
     stale_zip : BOOLEAN]

\* perform_installation: InstallerHack(..., kernels=['linux-zen']).  The disk
\* layout is one boot partition on /dev/sda, with or without an EFI
\* partition mounted at /boot, on either firmware
InstallInit ==
    /\ has_uefi \in BOOLEAN
    /\ efi_partition \in {NoEfiPartition, [present |-> TRUE, mountpoint |-> "boot"]}
    /\ boot_partition = "/dev/sda1"
    /\ has_alias = TRUE
    /\ root_params = <<"root=/dev/mapper/vg-root", "rw">>
    /\ kernels = <<"linux-zen">>
    /\ arguments \in ArgumentSets
    /\ files = (IF arguments.stale_zip
                THEN [q \in {ZipFile} |-> <<"zip archive">>] ELSE <<>>)
    /\ dirs = MountedDirs(efi_partition)
    /\ executed = <<>>
    /\ trace = <<>>
    /\ hook_command = NoCommand
    /\ parent_dev_path = NoPath
    /\ file_idx = 0
    /\ helper_flags = [bootloader |-> "None"]
    /\ raised = NoError
    /\ pc = "idle"
    /\ ip = 1

\* A statement whose condition is false is passed over
SkipStep ==
    /\ Running
    /\ pc = "idle"
    /\ ~Runs(Program[ip], arguments)
    /\ ip' = ip + 1
    /\ UNCHANGED <<inputs, files, dirs, executed, trace, hook_command,
                   parent_dev_path, file_idx, helper_flags, raised, pc>>

\* installation.<method>(...): returns, or raises
LibStep ==
    /\ At("lib")
    /\ Runs(Program[ip], arguments)
    /\ trace' = Append(trace, Ev("call", Program[ip].name, 0))
    /\ \/ /\ ip' = ip + 1
          /\ UNCHANGED raised
       \/ /\ raised' = [kind |-> "LibraryError", msg |-> Program[ip].name]
          /\ UNCHANGED ip
    /\ UNCHANGED <<inputs, files, dirs, executed, hook_command,
                   parent_dev_path, file_idx, helper_flags, pc>>

\* installation.run_command(cmd): SysCommand in the chroot, which raises on a
\* non-zero exit status
CommandStep ==
    /\ At("cmd")
    /\ \/ /\ trace' = Append(trace, Ev("run", Program[ip].name, 0))
          /\ ip' = ip + 1
          /\ UNCHANGED raised
       \/ /\ trace' = Append(trace, Ev("run", Program[ip].name, 1))
          /\ raised' = [kind |-> "SysCallError", msg |-> Program[ip].name]
          /\ UNCHANGED ip
    /\ UNCHANGED <<inputs, files, dirs, executed, hook_command,
                   parent_dev_path, file_idx, helper_flags, pc>>

\* open / shutil.copy / os.mkdir / os.remove of the script itself
FileStep ==
    /\ At("file")
    /\ trace' = Append(trace, Ev("file", Program[ip].name, 0))
    /\ \/ /\ ip' = ip + 1
          /\ files' = IF Program[ip].name = "remove zip"
                      THEN [q \in DOMAIN files \ {ZipFile} |-> files[q]]
                      ELSE files
          /\ UNCHANGED raised
       \/ /\ raised' = [kind |-> "OSError", msg |-> Program[ip].name]
          /\ UNCHANGED <<ip, files>>
    /\ UNCHANGED <<inputs, dirs, executed, hook_command, parent_dev_path,
                   file_idx, helper_flags, pc>>

\* installation.add_bootloader(Bootloader.Limine) enters _add_limine_bootloader
CallAddBootloader ==
    /\ At("bootloader")
    /\ trace' = Append(trace, Ev("call", Program[ip].name, 0))
    /\ pc' = "strap"
    /\ UNCHANGED <<inputs, files, dirs, executed, hook_command,
                   parent_dev_path, file_idx, helper_flags, raised, ip>>

\* _add_limine_bootloader has returned
ReturnAddBootloader ==
    /\ Running
    /\ Program[ip].kind = "bootloader"
    /\ pc = "returned"
    /\ pc' = "idle"
    /\ ip' = ip + 1
    /\ UNCHANGED <<inputs, files, dirs, executed, trace, hook_command,
                   parent_dev_path, file_idx, helper_flags, raised>>

\* subprocess.run(['wget', url]): the exit status is not looked at.  wget
\* writes the archive when no file of that name is there already; a failed
\* download leaves nothing or a partial file
Wget ==
    /\ At("wget")
    /\ \/ /\ trace' = Append(trace, Ev("run", "wget", 0))
          /\ files' = IF ZipFile \in DOMAIN files THEN files
                      ELSE WriteFile(files, ZipFile, <<"zip archive">>)
       \/ /\ trace' = Append(trace, Ev("run", "wget", 1))
          /\ \/ UNCHANGED files
             \/ /\ ZipFile \notin DOMAIN files
                /\ files' = WriteFile(files, ZipFile, <<"partial">>)
    /\ ip' = ip + 1
    /\ UNCHANGED <<inputs, dirs, executed, hook_command, parent_dev_path,
                   file_idx, helper_flags, raised, pc>>

\* zipfile.ZipFile(...).extractall(...): raises when the archive is missing
\* or is no zip file
Unzip ==
    /\ At("unzip")
    /\ trace' = Append(trace, Ev("unzip", ZipFile, 0))
    /\ \/ /\ ZipFile \in DOMAIN files
          /\ files[ZipFile] = <<"zip archive">>
          /\ files' = WriteFile(files, Join(ThemeDir, "eucalyptus-drop"),
                                <<"theme">>)
          /\ ip' = ip + 1
          /\ UNCHANGED raised
       \/ /\ ZipFile \notin DOMAIN files
          /\ raised' = [kind |-> "FileNotFoundError", msg |-> ZipFile]
          /\ UNCHANGED <<ip, files>>
       \/ /\ ZipFile \in DOMAIN files
          /\ raised' = [kind |-> IF files[ZipFile] = <<"zip archive">>
                                 THEN "OSError" ELSE "BadZipFile",
                        msg |-> ZipFile]
          /\ UNCHANGED <<ip, files>>
    /\ UNCHANGED <<inputs, dirs, executed, hook_command, parent_dev_path,
                   file_idx, helper_flags, pc>>

NextInstall ==
    \/ SkipStep
    \/ LibStep
    \/ CommandStep
    \/ FileStep
    \/ CallAddBootloader
    \/ Strap
    \/ Check
    \/ EfiMkdir
    \/ EfiCopy
    \/ BiosParent
    \/ BiosCopy
    \/ BiosInstall
    \/ HookMkdir
    \/ HookWrite
    \/ GetKernelParams
    \/ ConfigWrite
    \/ SetFlag
    \/ ReturnAddBootloader
    \/ Wget
    \/ Unzip

SpecInstall == InstallInit /\ [][NextInstall]_vars

----------------------------------------------------------------------------
(* Vocabulary of the properties.                                           *)

Succeeded == pc = "returned"

Failed == pc = "raised"

ConfigWritten == pc \in {"set_flag", "returned"}

Reverse(q) == [i \in DOMAIN q |-> q[Len(q) + 1 - i]]

Last(q) == q[Len(q)]

\* The partition information the firmware mode needs is missing or unmounted
MissingPartitionInfo ==
    \/ has_uefi /\ (~efi_partition.present \/ efi_partition.mountpoint = NoPath)
    \/ ~has_uefi /\ boot_partition = NoPath

\* Operations that change the target filesystem or the disk
Mutations == {"strap", "mkdir", "copy", "write", "run"}

\* What a hook command does when /bin/sh runs it inside the installed root:
\* "cp SRC DIR/" places SRC's file name in DIR, "limine bios-install DEV"
\* installs onto DEV; paths of the installed root lie below Target
HookBasename(word) ==
    CHOOSE f \in Range(EfiFiles) \cup {BiosFile} : word = "/usr/share/limine/" \o f

HookOp(words) ==
    IF words[1] = "/usr/bin/cp"
    THEN CopyOp(Target \o words[2], Target \o words[3] \o HookBasename(words[2]))
    ELSE InstallOp(Target, words[3])

HookOps(cmd) == [i \in DOMAIN cmd |-> HookOp(cmd[i])]

RECURSIVE Replay(_, _)
\* The files after running the operations ops on the files f
Replay(f, ops) ==
    IF ops = <<>> THEN f
    ELSE Replay(IF ops[1].op = "copy"
                THEN WriteFile(f, ops[1].dst, f[ops[1].src]) ELSE f,
                Tail(ops))

\* The device the BIOS branch must install onto
ExpectedDevice ==
    LET parent == get_parent_device_path(boot_partition)
        alias == get_unique_path_for_device(parent, has_alias)
    IN  IF alias # NoPath THEN alias ELSE parent

\* The positions of the trace holding a disk-install run
InstallRuns == {i \in DOMAIN trace : trace[i].op = "run"}

\* The label line of stanza s of the boot-menu file (stanzas count from 1)
LabelLine(cfg, s) == cfg[3 + 6 * (s - 1)]

\* The rank of an installation step in the order base system, bootloader,
\* packages, users, services; 0 for any other operation
StepRank(ev) ==
    IF ev.op # "call" THEN 0
    ELSE CASE ev.arg = "minimal_installation" -> 1
           [] ev.arg = "add_bootloader" -> 2
           [] ev.arg \in {"add_additional_packages(drivers)",
                          "add_additional_packages(packages)"} -> 3
           [] ev.arg \in {"user_set_pw", "create_users"} -> 4
           [] ev.arg \in {"enable_service(sddm)", "enable_service(touchegg)",
                          "enable_service(NetworkManager)",
                          "enable_service(bluetooth)"} -> 5
           [] OTHER -> 0

----------------------------------------------------------------------------
(* The claims.                                                             *)

\* C1: when the partition information the firmware mode needs is missing or
\* unmounted, the operation never gets past its checks: it can only end
\* raised, and neither the hook file nor the boot-menu file is written and
\* no boot file is copied.
C1_MissingPartitionFailsCleanly ==
    MissingPartitionInfo =>
        /\ pc \in {"strap", "check", "bios_parent", "raised"}
        /\ hook_path \notin DOMAIN files
        /\ config_path \notin DOMAIN files
        /\ executed = <<>>
        /\ DOMAIN files \subseteq LiminePackageFiles
        /\ \A i \in DOMAIN trace : trace[i].op \notin {"copy", "write"}

\* C1 witness: UEFI mode, an EFI partition that is not mounted, the
\* operation raised on it.
C1_Witness ==
    /\ has_uefi
    /\ efi_partition.present
    /\ efi_partition.mountpoint = NoPath
    /\ Failed
    /\ raised.msg = "EFI partition is not mounted"

\* C2 (as claimed): until the precondition checks have passed, no operation
\* that changes the target filesystem has been attempted, the strap of the
\* limine package included.
C2_NoMutationBeforeChecks ==
    pc \in {"strap", "check"} =>
        /\ \A i \in DOMAIN trace : trace[i].op \notin Mutations
        /\ files = <<>>

\* C3 (as claimed): after a successful install the hook command performs
\* the operations of the install, on the same sources and destinations, in
\* the same order.
C3_HookSameOrder ==
    Succeeded => HookOps(hook_command) = executed

\* C3 (amended): after a successful install the hook command, as written to
\* the hook file, performs exactly the operations of the install on the same
\* sources and destinations; in UEFI mode in the same order, in BIOS mode in
\* the opposite order (disk install first, stage-3 copy second); replaying
\* it on the installed root reproduces the file placements of the install.
C3_HookSameOperations ==
    Succeeded =>
        /\ Last(files[hook_path])
               = "Exec = /bin/sh -c \"" \o RenderCommand(hook_command) \o "\""
        /\ Len(HookOps(hook_command)) = Len(executed)
        /\ Range(HookOps(hook_command)) = Range(executed)
        /\ has_uefi => HookOps(hook_command) = executed
        /\ ~has_uefi => HookOps(hook_command) = Reverse(executed)
        /\ Replay(files, HookOps(hook_command)) = files
        /\ \A i \in DOMAIN executed :
               executed[i].op = "copy" => executed[i].dst \in DOMAIN files

\* C3 witness: a successful BIOS install, whose hook runs the disk install
\* before the copy.
C3_Witness ==
    /\ Succeeded
    /\ ~has_uefi
    /\ Len(executed) = 2
    /\ HookOps(hook_command)[1].op = "bios-install"

\* C4 (as claimed): a failure of a precondition, of a directory creation, of
\* a copy, of the disk-install run or of a file write reaches the caller as
\* a DiskError.
C4_OnlyDiskErrorEscapes ==
    (Failed /\ trace # <<>> /\ Last(trace).op \in {"check", "mkdir", "copy", "run", "write"})
        => raised.kind = "DiskError"

\* C5: the boot-menu file written for the kernel list K is the timeout line
\* TIMEOUT=5, once and first, then 2*|K| stanzas of six lines: kernels in
\* the order given, for each kernel the primary stanza and then the fallback
\* stanza, each with the kernel's image path and the variant's initramfs.
C5_ConfigLayout ==
    ConfigWritten =>
        LET cfg == files[config_path]
            n == Len(kernels)
        IN  /\ Len(cfg) = 1 + 6 * (2 * n)
            /\ cfg[1] = "TIMEOUT=5"
            /\ \A i \in 2..Len(cfg) : cfg[i] # "TIMEOUT=5"
            /\ Cardinality({i \in DOMAIN cfg : cfg[i] = "    PROTOCOL=linux"}) = 2 * n
            /\ \A k \in 1..n : \A v \in 1..2 :
                   LET at == 1 + 6 * (2 * (k - 1) + (v - 1))
                   IN  /\ cfg[at + 1] = ""
                       /\ cfg[at + 3] = "    PROTOCOL=linux"
                       /\ cfg[at + 4] = "    KERNEL_PATH=boot:///vmlinuz-" \o kernels[k]
                       /\ cfg[at + 5] = "    MODULE_PATH=boot:///initramfs-" \o kernels[k]
                                         \o (IF v = 1 THEN "" ELSE "fallback") \o ".img"

\* C5 witness: a boot-menu file written for two different kernels.
C5_Witness ==
    /\ Succeeded
    /\ Len(kernels) = 2
    /\ kernels[1] # kernels[2]
    /\ Len(files[config_path]) > 1

\* C6: after a successful install, in UEFI mode both boot stubs are in
\* EFI/BOOT under the EFI mount point of the target, with the content of the
\* package's files; in BIOS mode limine-bios.sys is in the target's /boot
\* and the disk install ran exactly once, against the unique alias of the
\* boot partition's parent device when there is one and the parent device
\* otherwise, never against the partition.
C6_DeployedArtifacts ==
    Succeeded =>
        IF has_uefi
        THEN /\ \A f \in {"BOOTIA32.EFI", "BOOTX64.EFI"} :
                    LET p == Target \o "/" \o efi_partition.mountpoint \o "/EFI/BOOT/" \o f
                    IN  /\ p \in DOMAIN files
                        /\ files[p] = files[Target \o "/usr/share/limine/" \o f]
             /\ InstallRuns = {}
        ELSE /\ (Target \o "/boot/limine-bios.sys") \in DOMAIN files
             /\ files[Target \o "/boot/limine-bios.sys"]
                    = files[Target \o "/usr/share/limine/limine-bios.sys"]
             /\ Cardinality(InstallRuns) = 1
             /\ \A i \in InstallRuns :
                    /\ trace[i].rc = 0
                    /\ trace[i].arg = "/usr/bin/arch-chroot " \o Target
                                      \o " limine bios-install " \o ExpectedDevice
             /\ ExpectedDevice # boot_partition
             /\ ExpectedDevice # NoPath

\* C6 witness: a successful BIOS install onto a disk that has a unique
\* alias.
C6_Witness ==
    /\ Succeeded
    /\ ~has_uefi
    /\ has_alias
    /\ parent_dev_path = "/dev/disk/by-id/ata-DISK0"

\* C7: helper_flags['bootloader'] is 'limine' exactly when the operation has
\* succeeded; a run that failed leaves the flag as it was; whenever the flag
\* is set, the hook file and the boot-menu file have been written.
C7_FlagIffSucceeded ==
    /\ helper_flags.bootloader = "limine" <=> Succeeded
    /\ Failed => helper_flags.bootloader = "None"
    /\ helper_flags.bootloader = "limine" =>
           /\ hook_path \in DOMAIN files
           /\ config_path \in DOMAIN files

\* C7 witness: a successful run, with the flag set.
C7_Witness ==
    /\ Succeeded
    /\ helper_flags.bootloader = "limine"
    /\ config_path \in DOMAIN files

\* C8 (as claimed): the installation steps run in the order base system,
\* bootloader, packages, users, services.
C8_StepOrder ==
    \A i, j \in DOMAIN trace :
        (i < j /\ StepRank(trace[i]) > 0 /\ StepRank(trace[j]) > 0)
            => StepRank(trace[i]) <= StepRank(trace[j])

\* C9 (as claimed): a subprocess that exited non-zero is the last operation
\* of the installation, which has aborted on it.
C9_NonZeroExitAborts ==
    \A i \in DOMAIN trace :
        (trace[i].op = "run" /\ trace[i].rc # 0)
            => (i = Len(trace) /\ raised # NoError)

\* C10 (as claimed): for pairwise distinct kernels, no two stanzas of the
\* boot-menu file carry the same label line.
C10_LabelsDistinct ==
    (ConfigWritten /\ \A a, b \in DOMAIN kernels : a # b => kernels[a] # kernels[b])
        => \A s, t \in 1..(2 * Len(kernels)) :
               s # t => LabelLine(files[config_path], s) # LabelLine(files[config_path], t)

====
